---- MODULE Spec2Model ----
(***************************************************************************)
(* Model of toxic_fool/toxicity_classifier/classifier.py:                  *)
(*   - CustomLoss.binary_crossentropy_with_bias  (the loss factory)        *)
(*   - AttentionWeightedAverage.call and the pooling views of the graph    *)
(*   - ToxicityClassifier: construction (_build_graph), train, classify,   *)
(*     get_gradient, get_attention, get_attention_fn                       *)
(*                                                                         *)
(* Real numbers are exact rationals n / d; numpy's IEEE results that       *)
(* are not finite (inf, nan) are kept as separate values.  K.exp is taken  *)
(* to base 2 so that the exponentials of integer logits stay rational; it  *)
(* keeps exp(0) = 1, positivity and monotonicity.                          *)
(***************************************************************************)
EXTENDS Integers, Sequences, FiniteSets, TLC

VARIABLES
    lossIn,      \* arguments of binary_crossentropy_with_bias
    lossOut,     \* what the call produced: an exception or the closure's biases
    poolIn,      \* one forward pass: tokens, encoder states, attention parameter
    poolOut,     \* the four pooling views and the attention weights
    config,      \* ToxClassifierConfig and the environment it names
    status,      \* "new" | "built" | "failed"
    error,       \* the exception the constructor raised
    log,         \* steps _build_graph completed, in order
    model,       \* self._model: 0 is None, n > 0 the n-th keras.Model built
    compiles,    \* number of model.compile calls
    weights,     \* trainable parameters (recurrent, attention, dense)
    embMatrix,   \* weights of the frozen Embedding layer
    grad_fn,     \* self.grad_fn: 0 is None, n > 0 the n-th K.function built
    gradBuilds,  \* number of get_grad_fn calls
    gradCalls,   \* number of get_gradient calls that returned
    trains,      \* number of train calls that returned
    calls,       \* number of public calls made on the classifier
    lastOp,      \* the last public operation
    ckptDir,     \* whether config.checkpoint_path is a directory
    tpc,         \* per thread: position inside get_gradient
    tsaw,        \* per thread: value the right-hand side of line 297 produced
    tused,       \* per thread: the function line 298 called
    tcalls       \* per thread: get_gradient calls completed

lossVars == <<lossIn, lossOut>>
poolVars == <<poolIn, poolOut>>
lifeVars == <<config, status, error, log, model, compiles, weights, embMatrix,
              trains, calls, gradCalls, lastOp, ckptDir>>
gradVars == <<grad_fn, gradBuilds>>
thrVars  == <<tpc, tsaw, tused, tcalls>>
vars == <<lossVars, poolVars, lifeVars, gradVars, thrVars>>

(***************************************************************************)
(* Bounds                                                                  *)
(***************************************************************************)
RatioDen    == 4   \* ratios are k / RatioDen, k in 0..RatioDen
NumLabels   == 2   \* length of a per-label ratio vector (6 in the data set)
MaxSeq      == 3   \* largest max_seq of the general forward passes
NumTokens   == 2   \* vocabulary of the general forward passes, 0 is padding
Channels    == 2   \* feature width of the encoder output (240 in the graph)
MaxCalls    == 4   \* public calls on one classifier
NumThreads  == 2   \* threads calling get_gradient
MaxThreadCalls == 2 \* get_gradient calls per thread

(***************************************************************************)
(* Numbers                                                                 *)
(***************************************************************************)
RECURSIVE GCD(_, _)
GCD(a, b) == IF b = 0 THEN a ELSE GCD(b, a % b)

Abs(x) == IF x < 0 THEN -x ELSE x

Fin(n, d) ==
    LET s == IF d < 0 THEN -1 ELSE 1
        g == GCD(Abs(n), Abs(d))
    IN  [k |-> "fin", n |-> (s * n) \div g, d |-> (s * d) \div g]

\* n / d as written, not reduced
Raw(n, d) == [k |-> "fin", n |-> n, d |-> d]

Inf == [k |-> "inf", n |-> 1, d |-> 0]
NaN == [k |-> "nan", n |-> 0, d |-> 0]
Zero == Fin(0, 1)
One  == Fin(1, 1)

IsFin(x) == x.k = "fin"
IsZero(x) == IsFin(x) /\ x.n = 0
IsPos(x) == IsFin(x) /\ x.n > 0

\* numpy float arithmetic on non-negative operands
NpSub(a, b) ==
    IF a.k = "nan" \/ b.k = "nan" THEN NaN
    ELSE IF a.k = "inf" /\ b.k = "inf" THEN NaN
    ELSE IF a.k = "inf" THEN Inf
    ELSE IF b.k = "inf" THEN NaN
    ELSE Fin(a.n * b.d - b.n * a.d, a.d * b.d)

NpMul(a, b) ==
    IF a.k = "nan" \/ b.k = "nan" THEN NaN
    ELSE IF a.k = "inf" \/ b.k = "inf"
         THEN IF IsZero(a) \/ IsZero(b) THEN NaN ELSE Inf
    ELSE Fin(a.n * b.n, a.d * b.d)

NpDiv(a, b) ==
    IF a.k = "nan" \/ b.k = "nan" THEN NaN
    ELSE IF a.k = "inf" THEN (IF b.k = "inf" THEN NaN ELSE Inf)
    ELSE IF b.k = "inf" THEN Zero
    ELSE IF b.n = 0 THEN (IF a.n = 0 THEN NaN ELSE Inf)
    ELSE Fin(a.n * b.d, a.d * b.n)

NumEq(a, b) == IsFin(a) /\ IsFin(b) /\ a.n * b.d = b.n * a.d

(***************************************************************************)
(* CustomLoss.binary_crossentropy_with_bias                                *)
(*                                                                         *)
(* form "float": train_labels_1_ratio is a Python float, and / by zero     *)
(* raises ZeroDivisionError.  form "ndarray": it is a numpy array, and     *)
(* every operation is elementwise IEEE arithmetic, which does not raise.   *)
(***************************************************************************)
Ratios == {Fin(k, RatioDen) : k \in 0..RatioDen}

LossInputs ==
    [form : {"float"}, ratio : [1..1 -> Ratios], toxic_only : BOOLEAN]
    \cup
    [form : {"ndarray"}, ratio : [1..NumLabels -> Ratios], toxic_only : BOOLEAN]

Raised(e) == [kind |-> "raised", error |-> e, bias1 |-> <<>>, bias0 |-> <<>>]

Degenerate(r) == IsZero(r) \/ NumEq(r, One)

BiasNotNormalized(form, ratio, toxic_only) ==
    LET N == DOMAIN ratio
        ratio0 == [i \in N |-> NpSub(One, ratio[i])]
        bias1a == [i \in N |-> NpDiv(One, ratio[i])]
        bias0a == [i \in N |-> NpDiv(One, ratio0[i])]
        norm   == [i \in N |-> NpMul(bias0a[i], bias1a[i])]
    IN  IF form = "float" /\ \E i \in N : Degenerate(ratio[i])
        THEN Raised("ZeroDivisionError")
        ELSE [kind |-> "loss_function", error |-> "none",
              bias1 |-> [i \in N |-> NpDiv(bias1a[i], norm[i])],
              bias0 |-> bias0a]

binary_crossentropy_with_bias(form, ratio, toxic_only) ==
    LET N == DOMAIN ratio
        ratio0 == [i \in N |-> NpSub(One, ratio[i])]          \* line 79
        bias1a == [i \in N |-> NpDiv(One, ratio[i])]          \* line 80
        bias0a == [i \in N |-> NpDiv(One, ratio0[i])]         \* line 81
        norm   == [i \in N |-> NpMul(bias0a[i], bias1a[i])]   \* line 82
        bias0  == [i \in N |-> NpDiv(bias0a[i], norm[i])]     \* line 83
        bias1  == [i \in N |-> NpDiv(bias1a[i], norm[i])]     \* line 84
    IN  IF form = "float" /\ \E i \in N : Degenerate(ratio[i])
        THEN Raised("ZeroDivisionError")                      \* lines 80, 81
        ELSE [kind |-> "loss_function", error |-> "none",     \* line 95
              bias1 |-> bias1, bias0 |-> bias0]

\* compile() applies the returned closure to the symbolic outputs: with
\* train_on_toxic_only it subscripts the biases (lines 88, 90).
loss_function(form, toxic_only) ==
    IF toxic_only /\ form = "float" THEN "TypeError" ELSE "none"

NoLoss == [kind |-> "none", error |-> "none", bias1 |-> <<>>, bias0 |-> <<>>]

(***************************************************************************)
(* The pooling part of the graph (_build_graph, lines 216-223)             *)
(*                                                                         *)
(* A forward pass is given by the token sequence fed to the Input layer,   *)
(* the concatenated encoder output for it (one vector of Channels values   *)
(* per timestep, whatever the recurrent stack computed) and the attention  *)
(* layer's parameter.                                                      *)
(***************************************************************************)
EncVals == {-1, 1}      \* encoder output values
AttVals == {-1, 0, 1}   \* values of AttentionWeightedAverage.atten_weights
EpsilonDen == 10000000  \* K.epsilon() is 1 / EpsilonDen

ScenarioSeq == <<3, 1, 0, 0, 0>>   \* the end-to-end scenario of the spec

PoolInputsOf(seqs) ==
    UNION {[seq : {s}, enc : [DOMAIN s -> [1..Channels -> EncVals]],
            w : [1..Channels -> AttVals]] : s \in seqs}

\* every sequence of at most maxSeq tokens, and the scenario
PoolInputs(maxSeq) ==
    PoolInputsOf(UNION {[1..n -> 0..(NumTokens - 1)] : n \in 1..maxSeq})
    \cup PoolInputsOf({ScenarioSeq})

RECURSIVE SumOver(_, _)
SumOver(f, S) ==
    IF S = {} THEN 0
    ELSE LET x == CHOOSE y \in S : TRUE IN f[x] + SumOver(f, S \ {x})

MaxOver(f, S) == CHOOSE m \in {f[x] : x \in S} : \A x \in S : f[x] <= m
MinOver(f, S) == CHOOSE m \in {f[x] : x \in S} : \A x \in S : m <= f[x]

RECURSIVE Pow2(_)
Pow2(e) == IF e = 0 THEN 1 ELSE 2 * Pow2(e - 1)

\* ToxicityClassifier.mask_tensor: the tensor times (input != 0), per channel
mask_tensor(tensor, input) ==
    [t \in DOMAIN tensor |->
        [c \in 1..Channels |-> tensor[t][c] * (IF input[t] # 0 THEN 1 ELSE 0)]]

\* layers.GlobalAveragePooling1D: K.mean over the time axis; no Keras mask
\* reaches it (the Embedding has mask_zero=False, a Lambda emits none)
avg_polling_layer(tensor) ==
    LET T == DOMAIN tensor
    IN  [c \in 1..Channels |->
            Fin(SumOver([t \in T |-> tensor[t][c]], T), Cardinality(T))]

\* layers.GlobalMaxPooling1D
max_polling_layer(tensor) ==
    LET T == DOMAIN tensor
    IN  [c \in 1..Channels |-> Fin(MaxOver([t \in T |-> tensor[t][c]], T), 1)]

\* ToxicityClassifier.last_stage: t[:, -1]
last_stage(tensor) ==
    [c \in 1..Channels |-> Fin(tensor[Len(tensor)][c], 1)]

NoMask == <<>>   \* mask = None

\* AttentionWeightedAverage.call.  With m == min(logits) and
\* M == 2^(max(logits) - m), exp(logit - max) is aiNum / M.
AttentionWeightedAverage_call(inputs, atten_weights, mask) ==
    LET T == DOMAIN inputs
        logits == [t \in T |->
                     SumOver([c \in 1..Channels |-> inputs[t][c] * atten_weights[c]],
                             1..Channels)]                              \* line 54
        mx == MaxOver(logits, T)
        mn == MinOver(logits, T)
        M  == Pow2(mx - mn)
        expNum == [t \in T |-> Pow2(logits[t] - mn)]                    \* line 57
        aiNum == IF mask = NoMask THEN expNum                           \* line 60
                 ELSE [t \in T |-> expNum[t] * (IF mask[t] THEN 1 ELSE 0)]
        S == SumOver(aiNum, T)
        D == S * EpsilonDen + M           \* (sum + epsilon) is D / (M * EpsilonDen)
        att == [t \in T |-> Raw(aiNum[t] * EpsilonDen, D)]              \* line 63
        result == [c \in 1..Channels |->
                     Raw(SumOver([t \in T |-> inputs[t][c] * aiNum[t] * EpsilonDen], T),
                         D)]                                            \* lines 64-65
    IN  [result |-> result, att_weights |-> att]

\* ToxicityClassifier.attention_layer: attenion(tensor), no mask argument,
\* and no Keras mask on the tensor
attention_layer(tensor, atten_weights) ==
    AttentionWeightedAverage_call(tensor, atten_weights, NoMask)

\* _build_graph lines 217-223 on one example
pooling_views(in) ==
    LET mask == mask_tensor(in.enc, in.seq)                 \* line 217
        att  == attention_layer(mask, in.w)                 \* line 222
    IN  [done |-> TRUE,
         masked |-> mask,
         avgpool |-> avg_polling_layer(mask),               \* line 219
         maxpool |-> max_polling_layer(mask),               \* line 220
         last |-> last_stage(mask),                         \* line 221
         atten |-> att.result,
         atten_w |-> att.att_weights]

NoPool == [done |-> FALSE, masked |-> <<>>, avgpool |-> <<>>, maxpool |-> <<>>,
           last |-> <<>>, atten |-> <<>>, atten_w |-> <<>>]

(***************************************************************************)
(* ToxicityClassifier: construction                                        *)
(***************************************************************************)
\* The per-label ratios of a configuration are all equal; the loss factory
\* is checked on every ratio vector under SpecLoss.
ConfigLossInputs ==
    {in \in LossInputs : \A i \in DOMAIN in.ratio : in.ratio[i] = in.ratio[1]}

Configs ==
    [restore : BOOLEAN,                        \* config.restore
     saved : {"missing", "ok", "mismatch"},    \* the file at config.restore_path
     optimize : BOOLEAN,                       \* interpreter run with -O: asserts are stripped
     loss : ConfigLossInputs,                  \* train_labels_1_ratio, train_on_toxic_only
     checkpoint : BOOLEAN]                     \* config.checkpoint

FreshWeights == [src |-> "init", steps |-> 0]
SavedWeights == [src |-> "restored", steps |-> 0]

BuildFailed(e, lg) ==
    [status |-> "failed", error |-> e, log |-> lg, model |-> 0, compiles |-> 0,
     weights |-> FreshWeights, embMatrix |-> "given"]

\* steps from the loss factory on (lines 243-251), with the weights at hand
compile_model(cfg, lg, w, emb) ==
    LET loss == binary_crossentropy_with_bias(cfg.loss.form, cfg.loss.ratio,
                                              cfg.loss.toxic_only)
        applied == loss_function(cfg.loss.form, cfg.loss.toxic_only)
    IN  IF loss.kind = "raised" THEN BuildFailed(loss.error, lg)         \* line 244
        ELSE IF applied # "none" THEN BuildFailed(applied, lg)           \* line 243
        ELSE [status |-> "built", error |-> "none",
              log |-> Append(lg, "compile"), model |-> 1, compiles |-> 1,
              weights |-> w, embMatrix |-> emb]

RestoreSkippedWhenMissing(cfg) ==
    IF cfg.restore /\ cfg.saved = "mismatch"
    THEN BuildFailed("ValueError", <<"graph">>)
    ELSE IF cfg.restore /\ cfg.saved = "ok"
    THEN compile_model(cfg, <<"graph", "load_weights">>, SavedWeights, "restored")
    ELSE compile_model(cfg, <<"graph">>, FreshWeights, "given")

\* ToxicityClassifier._build_graph
build_graph(cfg) ==
    IF cfg.restore                                                       \* line 237
    THEN IF cfg.saved = "missing"
         THEN IF ~cfg.optimize
              THEN BuildFailed("AssertionError", <<"graph">>)            \* line 239
              ELSE BuildFailed("OSError", <<"graph">>)                   \* line 240
         ELSE IF cfg.saved = "mismatch"
         THEN BuildFailed("ValueError", <<"graph">>)                     \* line 240
         ELSE compile_model(cfg, <<"graph", "load_weights">>,            \* line 240
                            SavedWeights, "restored")
    ELSE compile_model(cfg, <<"graph">>, FreshWeights, "given")

IdleLoss == [form |-> "none", ratio |-> <<>>, toxic_only |-> FALSE]
IdlePool == [seq |-> <<>>, enc |-> <<>>, w |-> <<>>]

Threads == 1..NumThreads

ThreadsIdle ==
    /\ tpc = [t \in Threads |-> "idle"]
    /\ tsaw = [t \in Threads |-> 0]
    /\ tused = [t \in Threads |-> 0]
    /\ tcalls = [t \in Threads |-> 0]

Init ==
    /\ lossIn = IdleLoss /\ lossOut = NoLoss
    /\ poolIn = IdlePool /\ poolOut = NoPool
    /\ config \in Configs
    /\ ckptDir \in BOOLEAN
    /\ status = "new" /\ error = "none" /\ log = <<>>
    /\ model = 0 /\ compiles = 0
    /\ weights = FreshWeights /\ embMatrix = "given"
    /\ grad_fn = 0 /\ gradBuilds = 0                                     \* line 135
    /\ trains = 0 /\ calls = 0 /\ gradCalls = 0 /\ lastOp = "none"
    /\ ThreadsIdle

\* ToxicityClassifier.__init__: an exception leaves the caller no object
Construct ==
    /\ status = "new"
    /\ LET b == build_graph(config)                                      \* line 139
       IN  /\ status' = b.status /\ error' = b.error /\ log' = b.log
           /\ model' = b.model /\ compiles' = b.compiles
           /\ weights' = b.weights /\ embMatrix' = b.embMatrix
    /\ lastOp' = "construct"
    /\ UNCHANGED <<config, trains, calls, gradCalls, ckptDir, gradVars, lossVars, poolVars, thrVars>>

(***************************************************************************)
(* ToxicityClassifier: the public operations                               *)
(***************************************************************************)
Callable == status = "built" /\ calls < MaxCalls

Called(op) == calls' = calls + 1 /\ lastOp' = op

TrainRebuildsGraph ==
    /\ Callable /\ Called("train")
    /\ ckptDir' = (ckptDir \/ config.checkpoint)
    /\ model' = model + 1 /\ compiles' = compiles + 1
    /\ weights' = [weights EXCEPT !.steps = @ + 1]
    /\ trains' = trains + 1
    /\ UNCHANGED <<config, status, error, log, embMatrix, gradCalls, gradVars,
                   lossVars, poolVars, thrVars>>

\* train: _define_callbacks, then model.fit
Train ==
    /\ Callable /\ Called("train")
    /\ ckptDir' = (ckptDir \/ config.checkpoint)                         \* lines 255-258
    /\ weights' = [weights EXCEPT !.steps = @ + 1]                       \* lines 273-279
    /\ trains' = trains + 1
    /\ UNCHANGED <<config, status, error, log, model, compiles, embMatrix, gradCalls, gradVars,
                   lossVars, poolVars, thrVars>>

ClassifyFits ==
    /\ Callable /\ Called("classify")
    /\ weights' = [weights EXCEPT !.steps = @ + 1]
    /\ UNCHANGED <<config, status, error, log, model, compiles, embMatrix, gradCalls,
                   trains, ckptDir, gradVars, lossVars, poolVars, thrVars>>

\* classify: model.predict
Classify ==
    /\ Callable /\ Called("classify")
    /\ UNCHANGED <<config, status, error, log, model, compiles, weights, embMatrix, gradCalls,
                   trains, ckptDir, gradVars, lossVars, poolVars, thrVars>>

GetGradientRebuilds ==
    /\ Callable /\ Called("get_gradient")
    /\ gradCalls' = gradCalls + 1
    /\ gradBuilds' = gradBuilds + 1 /\ grad_fn' = gradBuilds + 1
    /\ UNCHANGED <<config, status, error, log, model, compiles, weights, embMatrix,
                   trains, ckptDir, lossVars, poolVars, thrVars>>

\* get_gradient, run without interruption
GetGradient ==
    /\ Callable /\ Called("get_gradient")
    /\ gradCalls' = gradCalls + 1
    /\ IF grad_fn = 0                                                    \* line 297
       THEN gradBuilds' = gradBuilds + 1 /\ grad_fn' = gradBuilds + 1    \* lines 291-294
       ELSE UNCHANGED gradVars
    /\ UNCHANGED <<config, status, error, log, model, compiles, weights, embMatrix,
                   trains, ckptDir, lossVars, poolVars, thrVars>>

\* get_attention: a new K.function over the graph, evaluated
GetAttention ==
    /\ Callable /\ Called("get_attention")
    /\ UNCHANGED <<config, status, error, log, model, compiles, weights, embMatrix, gradCalls,
                   trains, ckptDir, gradVars, lossVars, poolVars, thrVars>>

\* get_attention_fn: a new K.function over the graph, returned
GetAttentionFn ==
    /\ Callable /\ Called("get_attention_fn")
    /\ UNCHANGED <<config, status, error, log, model, compiles, weights, embMatrix, gradCalls,
                   trains, ckptDir, gradVars, lossVars, poolVars, thrVars>>

Next ==
    \/ Construct
    \/ Train
    \/ Classify
    \/ GetGradient
    \/ GetAttention
    \/ GetAttentionFn

Spec == Init /\ [][Next]_vars

(***************************************************************************)
(* The loss factory on every input                                         *)
(***************************************************************************)
Built0 ==
    /\ config = [restore |-> FALSE, saved |-> "missing", optimize |-> FALSE,
                 loss |-> [form |-> "ndarray",
                           ratio |-> [i \in 1..NumLabels |-> Fin(1, RatioDen)],
                           toxic_only |-> FALSE],
                 checkpoint |-> FALSE]
    /\ ckptDir = FALSE
    /\ status = "built" /\ error = "none" /\ log = <<"graph", "compile">>
    /\ model = 1 /\ compiles = 1
    /\ weights = FreshWeights /\ embMatrix = "given"
    /\ grad_fn = 0 /\ gradBuilds = 0
    /\ trains = 0 /\ calls = 0 /\ gradCalls = 0 /\ lastOp = "construct"

InitLoss ==
    /\ lossIn \in LossInputs /\ lossOut = NoLoss
    /\ poolIn = IdlePool /\ poolOut = NoPool
    /\ Built0 /\ ThreadsIdle

CallLoss ==
    /\ lossOut = NoLoss
    /\ lossOut' = binary_crossentropy_with_bias(lossIn.form, lossIn.ratio,
                                                lossIn.toxic_only)
    /\ UNCHANGED <<lossIn, poolVars, lifeVars, gradVars, thrVars>>

NextLoss == CallLoss

SpecLoss == InitLoss /\ [][NextLoss]_vars

(***************************************************************************)
(* One forward pass through the pooling views                              *)
(***************************************************************************)
InitPool ==
    /\ lossIn = IdleLoss /\ lossOut = NoLoss
    /\ poolIn \in PoolInputs(MaxSeq) /\ poolOut = NoPool
    /\ Built0 /\ ThreadsIdle

Forward ==
    /\ ~poolOut.done
    /\ poolOut' = pooling_views(poolIn)
    /\ UNCHANGED <<poolIn, lossVars, lifeVars, gradVars, thrVars>>

NextPool == Forward

SpecPool == InitPool /\ [][NextPool]_vars

(***************************************************************************)
(* get_gradient called from several threads: the interpreter may switch    *)
(* threads between the reads, the call and the store of line 297 and the   *)
(* read of line 298.                                                       *)
(***************************************************************************)
InitConc ==
    /\ lossIn = IdleLoss /\ lossOut = NoLoss
    /\ poolIn = IdlePool /\ poolOut = NoPool
    /\ Built0 /\ ThreadsIdle

ThreadFrame == UNCHANGED <<lossVars, poolVars, lifeVars>>

TEnter(t) ==
    /\ tpc[t] = "idle" /\ tcalls[t] < MaxThreadCalls
    /\ tpc' = [tpc EXCEPT ![t] = "test"]
    /\ UNCHANGED <<tsaw, tused, tcalls, gradVars>> /\ ThreadFrame

\* line 297, the condition: self.grad_fn == None
TTest(t) ==
    /\ tpc[t] = "test"
    /\ tpc' = [tpc EXCEPT ![t] = IF grad_fn = 0 THEN "build" ELSE "reload"]
    /\ UNCHANGED <<tsaw, tused, tcalls, gradVars>> /\ ThreadFrame

\* line 297, self.get_grad_fn()
TBuild(t) ==
    /\ tpc[t] = "build"
    /\ gradBuilds' = gradBuilds + 1
    /\ tsaw' = [tsaw EXCEPT ![t] = gradBuilds + 1]
    /\ tpc' = [tpc EXCEPT ![t] = "store"]
    /\ UNCHANGED <<grad_fn, tused, tcalls>> /\ ThreadFrame

\* line 297, else self.grad_fn
TReload(t) ==
    /\ tpc[t] = "reload"
    /\ tsaw' = [tsaw EXCEPT ![t] = grad_fn]
    /\ tpc' = [tpc EXCEPT ![t] = "store"]
    /\ UNCHANGED <<gradVars, tused, tcalls>> /\ ThreadFrame

\* line 297, the assignment to self.grad_fn
TStore(t) ==
    /\ tpc[t] = "store"
    /\ grad_fn' = tsaw[t]
    /\ tpc' = [tpc EXCEPT ![t] = "call"]
    /\ UNCHANGED <<gradBuilds, tsaw, tused, tcalls>> /\ ThreadFrame

\* line 298: self.grad_fn([seq])[0]
TCall(t) ==
    /\ tpc[t] = "call"
    /\ tused' = [tused EXCEPT ![t] = grad_fn]
    /\ tcalls' = [tcalls EXCEPT ![t] = @ + 1]
    /\ tpc' = [tpc EXCEPT ![t] = "idle"]
    /\ UNCHANGED <<tsaw, gradVars>> /\ ThreadFrame

NextConc ==
    \E t \in Threads :
        \/ TEnter(t)
        \/ TTest(t)
        \/ TBuild(t)
        \/ TReload(t)
        \/ TStore(t)
        \/ TCall(t)

SpecConc == InitConc /\ [][NextConc]_vars

(***************************************************************************)
(* Properties                                                              *)
(***************************************************************************)
InLog(step) == \E i \in DOMAIN log : log[i] = step

Before(a, b) == \E i, j \in DOMAIN log : i < j /\ log[i] = a /\ log[j] = b

\* C1: a constructor asked to restore from a path that does not exist fails:
\* no weights are loaded, nothing is compiled, there is no model and no call
\* on the classifier follows.  A classifier built with restore on has loaded
\* the saved weights before compile.
C1_RestoreFailureIsFatal ==
    status # "new" =>
        /\ (config.restore /\ config.saved = "missing") =>
              /\ status = "failed" /\ error \in {"AssertionError", "OSError"}
              /\ ~InLog("load_weights") /\ ~InLog("compile")
              /\ model = 0 /\ compiles = 0
              /\ calls = 0 /\ trains = 0 /\ gradCalls = 0
        /\ (config.restore /\ config.saved # "missing" /\ InLog("compile")) =>
              /\ Before("load_weights", "compile")
              /\ weights.src = "restored"

C1_Witness ==
    /\ status = "failed" /\ lastOp = "construct"
    /\ config.restore /\ config.saved = "missing"

\* C2: whenever some label's ratio is 0 or 1, the loss factory raises instead
\* of returning a loss function, for a float ratio and for a ratio vector.
C2_DegenerateRatioRaises ==
    (lossOut # NoLoss /\ \E i \in DOMAIN lossIn.ratio : Degenerate(lossIn.ratio[i]))
        => lossOut.kind = "raised"

ReadOps == {"classify", "get_gradient", "get_attention", "get_attention_fn"}

\* C3: a call of classify, get_gradient, get_attention or get_attention_fn
\* leaves the trainable parameters and the embedding matrix as they were, and
\* on a built classifier only train changes the trainable parameters.
C3_ReadPathsKeepParameters ==
    /\ [][(calls' = calls + 1 /\ lastOp' \in ReadOps)
            => (weights' = weights /\ embMatrix' = embMatrix)]_vars
    /\ [][(status = "built" /\ weights' # weights) => lastOp' = "train"]_vars
    /\ [][status = "built" => embMatrix' = embMatrix]_vars

C3_Witness ==
    /\ lastOp \in ReadOps /\ calls >= 3 /\ trains = 1 /\ gradCalls = 1
    /\ weights.steps = 1

NonPadded(seq) == {t \in DOMAIN seq : seq[t] # 0}
Padded(seq) == {t \in DOMAIN seq : seq[t] = 0}

\* the weights over S add up to 1 within 10^-6
SumsToOne(att, S) ==
    \A t \in S :
        Abs(att[t].d - SumOver([u \in S |-> att[u].n], S)) <= att[t].d \div 1000000

\* C4: after a forward pass the attention weight is exactly 0 at every padded
\* position (token id 0) and the weights add up to 1 over the other positions.
C4_AttentionZeroAtPadding ==
    poolOut.done =>
        /\ \A t \in Padded(poolIn.seq) : IsZero(poolOut.atten_w[t])
        /\ SumsToOne(poolOut.atten_w, NonPadded(poolIn.seq))

\* C4 on the scenario of the spec: max_seq = 5 and the sequence [3,1,0,0,0]
C4_ScenarioZeroAtPadding ==
    (poolOut.done /\ poolIn.seq = ScenarioSeq)
        => \A t \in 3..5 : IsZero(poolOut.atten_w[t])

\* C5: with k padded positions out of n, 0 < k < n, the average-pooling view
\* is per channel the mean of the encoder states at the n - k real positions.
C5_AverageOverRealPositions ==
    LET real == NonPadded(poolIn.seq)
    IN  (poolOut.done /\ real # {} /\ real # DOMAIN poolIn.seq) =>
            \A c \in 1..Channels :
                NumEq(poolOut.avgpool[c],
                      Fin(SumOver([t \in real |-> poolIn.enc[t][c]], real),
                          Cardinality(real)))

\* C6: for every label whose ratio r is strictly between 0 and 1 the factory
\* returns a loss function whose biases are positive and finite and satisfy
\* positive_bias * r = negative_bias * (1 - r).
C6_BiasesBalance ==
    lossOut # NoLoss =>
        /\ (\A i \in DOMAIN lossIn.ratio : ~Degenerate(lossIn.ratio[i]))
              => lossOut.kind = "loss_function"
        /\ \A i \in DOMAIN lossIn.ratio :
              (lossOut.kind = "loss_function" /\ ~Degenerate(lossIn.ratio[i])) =>
                  /\ IsPos(lossOut.bias1[i]) /\ IsPos(lossOut.bias0[i])
                  /\ NumEq(NpMul(lossOut.bias1[i], lossIn.ratio[i]),
                           NpMul(lossOut.bias0[i], NpSub(One, lossIn.ratio[i])))

C6_Witness ==
    /\ lossOut.kind = "loss_function" /\ lossIn.form = "ndarray"
    /\ lossIn.ratio[1] = Fin(1, RatioDen)
    /\ lossOut.bias1[1] = Fin(RatioDen - 1, RatioDen)
    /\ lossOut.bias0[1] = Fin(1, RatioDen)

\* C7: in a sequence of calls the gradient function is built by the first
\* get_gradient and by no other call, and once set self.grad_fn never changes.
C7_GradFnBuiltOnce ==
    /\ [](gradCalls = 0 => (gradBuilds = 0 /\ grad_fn = 0))
    /\ [](gradCalls >= 1 => (gradBuilds = 1 /\ grad_fn # 0))
    /\ [][grad_fn # 0 => grad_fn' = grad_fn]_vars

C7_Witness ==
    /\ gradCalls >= 2 /\ trains >= 1 /\ calls >= 4
    /\ gradBuilds = 1 /\ grad_fn = 1

\* C8: with threads calling get_gradient concurrently the gradient function
\* is built at most once and every caller calls the same function.
C8_OneTimeInitialization ==
    /\ gradBuilds <= 1
    /\ \A t, u \in Threads : (tused[t] # 0 /\ tused[u] # 0) => tused[t] = tused[u]

\* C9: the graph is built and compiled once, by the constructor; no later
\* call builds or compiles again or replaces the model, train after train
\* included.
C9_BuiltAndCompiledOnce ==
    /\ [](status = "built" =>
            (model = 1 /\ compiles = 1 /\ Cardinality({i \in DOMAIN log : log[i] = "compile"}) = 1))
    /\ [](status # "built" => (model = 0 /\ compiles = 0 /\ calls = 0))
    /\ [][status = "built" =>
            (status' = "built" /\ model' = model /\ compiles' = compiles /\ log' = log)]_vars

C9_Witness ==
    /\ status = "built" /\ trains >= 2 /\ lastOp = "train"
    /\ gradCalls >= 1 /\ calls >= 4 /\ compiles = 1

\* C10: for an all-padded sequence every attention weight is at most
\* epsilon and the attention-pooled vector is zero.
C10_AllPaddedDegradesToZero ==
    (poolOut.done /\ NonPadded(poolIn.seq) = {}) =>
        /\ \A t \in DOMAIN poolIn.seq :
              /\ IsFin(poolOut.atten_w[t])
              /\ poolOut.atten_w[t].n <= poolOut.atten_w[t].d \div EpsilonDen
        /\ \A c \in 1..Channels : IsZero(poolOut.atten[c])
====
